---------------------------- MODULE Spec2Model ----------------------------
(***************************************************************************)
(* A model of the network synthesis pipeline of backend/mst.py:           *)
(*   parse_input -> generate_voronoi_candidates -> cdist(haversine)       *)
(*   -> build_directed_graph_for_arborescence                              *)
(*   -> nx.minimum_spanning_arborescence -> prune_dead_end_pole_branches  *)
(*   -> the summary built at the end of compute_mst.                       *)
(*                                                                         *)
(* Units.  A coordinate is an integer number of 1e-7 degrees, a distance  *)
(* an integer number of millimetres.  Node ids are the 0-based indices of  *)
(* the code; the sequences that hold per-node data are 1-based, so node i *)
(* is at position i + 1.                                                   *)
(***************************************************************************)
EXTENDS Integers, Sequences, FiniteSets, TLC

VARIABLES
    pc,                \* position in compute_mst / prune_dead_end_pole_branches
    error,             \* the exception that ended compute_mst, "" if none
    points,            \* request.points
    debug,             \* request.debug
    costs,             \* request.costs
    pool,              \* the points the Voronoi library may answer
    parsed,            \* what parse_input returned (or raised)
    verts,             \* vor.vertices, the library's answer
    candidates,        \* what generate_voronoi_candidates returned
    extended_coords,   \* coords stacked with the candidates
    pole_indices,      \* sequence of pole node ids
    terminal_indices,  \* sequence of destination node ids
    source_idx,        \* node id of the source
    dist_matrix,       \* [node -> [node -> cm]]
    DG,                \* the candidate graph
    arbo_in,           \* the graph handed to prune_dead_end_pole_branches
    arbo,              \* the private copy the pruner works on
    removed,           \* the pruner's loop flag
    passes,            \* number of passes of the pruner's loop so far
    calls,             \* number of calls of the pruner so far
    prev_out,          \* what the previous call of the pruner returned
    mst,               \* what the last call of the pruner returned
    result             \* what compute_mst returned

vars == <<pc, error, points, debug, costs, pool, parsed, verts, candidates,
          extended_coords,
          pole_indices, terminal_indices, source_idx, dist_matrix, DG,
          arbo_in, arbo, removed, passes, calls, prev_out, mst, result>>

Range(s) == {s[i] : i \in 1..Len(s)}

RECURSIVE SeqOfSet(_)
\* sorted(S) for a finite set of integers
SeqOfSet(S) ==
    IF S = {} THEN <<>>
    ELSE LET m == CHOOSE x \in S : \A y \in S : x <= y
         IN <<m>> \o SeqOfSet(S \ {m})

-----------------------------------------------------------------------------
(* Program constants; a distance is in millimetres.                        *)

MAX_POLE_TO_TERMINAL == 100000
MAX_POLE_TO_POLE == 150000
\* the lower end, 0.1 m, of every edge window
MIN_EDGE_LENGTH == 100
MIN_DIST_TO_TERMINAL == 8000
MAX_CIRCUMRADIUS == 300000
MIN_CANDIDATE_SEPARATION == 10000
\* 90 and 180 degrees in units of 1e-7 degree
LAT_LIMIT == 900000000
LNG_LIMIT == 1800000000
\* millimetres per 1e-7 degree of arc, times 100 (R = 6371000 m)
MM_PER_UNIT_CENTI == 1112
\* costs.get(key, default), in thousandths of a currency unit
DEFAULT_POLE_COST == 1500000
DEFAULT_LOW_COST_M == 8
DEFAULT_HIGH_COST_M == 25

-----------------------------------------------------------------------------
(* Geodesic distance.                                                      *)

RECURSIVE SqrtSearch(_, _, _)
SqrtSearch(n, lo, hi) ==
    IF lo >= hi THEN lo
    ELSE LET mid == (lo + hi + 1) \div 2
         IN IF mid * mid <= n THEN SqrtSearch(n, mid, hi)
            ELSE SqrtSearch(n, lo, mid - 1)

\* floor of the square root
ISqrt(n) == SqrtSearch(n, 0, 46340)

\* haversine_meters for points a few hundred metres apart near the equator,
\* where the great-circle arc is R * sqrt(dphi^2 + dlam^2) to well below a
\* millimetre; the result is in millimetres.
haversine_meters(lat1, lng1, lat2, lng2) ==
    LET dphi == lat2 - lat1
        dlam == lng2 - lng1
    IN (ISqrt(dphi * dphi + dlam * dlam) * MM_PER_UNIT_CENTI) \div 100

-----------------------------------------------------------------------------
(* Strings.  A name is a sequence of one-character strings, so that        *)
(* lower(), strip() and the substring test of parse_input can be computed. *)

UpperChars == <<"A","B","C","D","E","F","G","H","I","J","K","L","M",
                "N","O","P","Q","R","S","T","U","V","W","X","Y","Z">>
LowerChars == <<"a","b","c","d","e","f","g","h","i","j","k","l","m",
                "n","o","p","q","r","s","t","u","v","w","x","y","z">>
Whitespace == {" ", "\t", "\n"}

\* str.lower() of one character
LowerChar(c) ==
    IF \E i \in 1..Len(UpperChars) : UpperChars[i] = c
    THEN LowerChars[CHOOSE i \in 1..Len(UpperChars) : UpperChars[i] = c]
    ELSE c

\* str.lower()
Lower(s) == [i \in 1..Len(s) |-> LowerChar(s[i])]

\* str.strip()
Strip(s) ==
    LET keep == {i \in 1..Len(s) : s[i] \notin Whitespace}
    IN IF keep = {} THEN <<>>
       ELSE LET a == CHOOSE i \in keep : \A j \in keep : i <= j
                b == CHOOSE i \in keep : \A j \in keep : j <= i
            IN SubSeq(s, a, b)

\* kw in s
Contains(s, kw) ==
    \E i \in 1..(Len(s) - Len(kw) + 1) : SubSeq(s, i, i + Len(kw) - 1) = kw

Digits == <<"0","1","2","3","4","5","6","7","8","9">>

\* str(n) for 0 <= n <= 99
IntToStr(n) ==
    IF n < 10 THEN <<Digits[n + 1]>>
    ELSE <<Digits[(n \div 10) + 1], Digits[(n % 10) + 1]>>

SOURCE_KEYWORDS == {
    <<"p","o","w","e","r"," ","s","o","u","r","c","e">>,
    <<"p","o","w","e","r","s","o","u","r","c","e">>,
    <<"s","o","u","r","c","e">>,
    <<"s","u","b","s","t","a","t","i","o","n">>,
    <<"m","a","i","n"," ","s","o","u","r","c","e">>,
    <<"p","r","i","m","a","r","y">>,
    <<"g","e","n","e","r","a","t","o","r">>,
    <<"g","r","i","d"," ","t","i","e">>,
    <<"u","t","i","l","i","t","y">> }

PowerSourceName == <<"P","o","w","e","r"," ","S","o","u","r","c","e">>

\* f"Location {i + 1}" for the point at 0-based index i
LocationName(i) == <<"L","o","c","a","t","i","o","n"," ">> \o IntToStr(i + 1)

\* the source test of parse_input on a stripped name
IsSourceName(name) ==
    LET name_lower == Lower(name)
    IN \/ \E kw \in SOURCE_KEYWORDS : Contains(name_lower, kw)
       \/ Contains(name_lower, <<"s","o","u","r","c","e">>)

-----------------------------------------------------------------------------
(* parse_input.                                                            *)
(* A raw lat/lng value is [k, v]: k = "num" a float v; "str" a string that *)
(* float() parses to v; "bad" a string float() rejects (ValueError);       *)
(* "nan" a float nan; "none" None (TypeError); "missing" no such key       *)
(* (KeyError).                                                             *)

\* float(p[key]): [ok, nan, v]
ToFloat(raw) ==
    CASE raw.k \in {"num", "str"} -> [ok |-> TRUE, nan |-> FALSE, v |-> raw.v]
      [] raw.k = "nan" -> [ok |-> TRUE, nan |-> TRUE, v |-> 0]
      [] OTHER -> [ok |-> FALSE, nan |-> FALSE, v |-> 0]

\* the range test on the latitude alone
InRangeLatOnly(lat, lng) ==
    ~lat.nan /\ -LAT_LIMIT <= lat.v /\ lat.v <= LAT_LIMIT

\* -90 <= lat <= 90 and -180 <= lng <= 180; every comparison with nan is False
InRange(lat, lng) ==
    /\ ~lat.nan /\ -LAT_LIMIT <= lat.v /\ lat.v <= LAT_LIMIT
    /\ ~lng.nan /\ -LNG_LIMIT <= lng.v /\ lng.v <= LNG_LIMIT

\* the loop body with every matching point taking the source's place
ParsePointLastMatch(st, i, p) ==
    LET name == IF p.name.none THEN LocationName(i) ELSE Strip(p.name.s)
        match == IsSourceName(name)
    IN [error |-> "",
        coords_list |-> Append(st.coords_list, <<ToFloat(p.lat).v, ToFloat(p.lng).v>>),
        names |-> Append(st.names, IF match THEN PowerSourceName ELSE name),
        source_idx |-> IF match THEN i ELSE st.source_idx]

\* the body of the loop over the points, for the point at 0-based index i,
\* on the loop's state st = [error, coords_list, names, source_idx]
\* (source_idx = -1 stands for None)
ParsePoint(st, i, p) ==
    LET lat == ToFloat(p.lat)
        lng == ToFloat(p.lng)
    IN IF ~lat.ok \/ ~lng.ok
       THEN [st EXCEPT !.error = "missing/invalid lat/lng"]
       ELSE IF ~InRange(lat, lng)
       THEN [st EXCEPT !.error = "invalid coordinates"]
       ELSE LET name == IF p.name.none THEN LocationName(i) ELSE Strip(p.name.s)
                first == IsSourceName(name) /\ st.source_idx = -1
            IN [error |-> "",
                coords_list |-> Append(st.coords_list, <<lat.v, lng.v>>),
                names |-> Append(st.names, IF first THEN PowerSourceName ELSE name),
                source_idx |-> IF first THEN i ELSE st.source_idx]

RECURSIVE ParseLoop(_, _, _)
\* the loop over enumerate(points) from 0-based index i on; a raise ends it
ParseLoop(st, pts, i) ==
    IF st.error # "" \/ i >= Len(pts) THEN st
    ELSE ParseLoop(ParsePoint(st, i, pts[i + 1]), pts, i + 1)

ParseFailed(msg) ==
    [ok |-> FALSE, error |-> msg, coords |-> <<>>, names |-> <<>>,
     source_idx |-> -1, terminal_indices |-> <<>>]

\* parse_input(request): what it returns, or the ValueError it raises
parse_input(pts) ==
    IF Len(pts) < 2 THEN ParseFailed("At least 2 points required")
    ELSE LET st == ParseLoop([error |-> "", coords_list |-> <<>>,
                              names |-> <<>>, source_idx |-> -1], pts, 0)
         IN IF st.error # "" THEN ParseFailed(st.error)
            ELSE LET src == IF st.source_idx = -1 THEN 0 ELSE st.source_idx
                     nms == IF st.source_idx = -1
                            THEN [st.names EXCEPT ![1] = PowerSourceName]
                            ELSE st.names
                 IN [ok |-> TRUE, error |-> "",
                     coords |-> st.coords_list,
                     names |-> nms,
                     source_idx |-> src,
                     terminal_indices |->
                         SeqOfSet({i \in 0..(Len(st.coords_list) - 1) : i # src})]

-----------------------------------------------------------------------------
(* generate_voronoi_candidates.                                            *)
(* scipy.spatial.Voronoi is a library: vor.vertices is whatever list of    *)
(* planar points it answers, here the variable verts.                      *)

RECURSIVE DistsFrom(_, _, _)
DistsFrom(v, coords, j) ==
    IF j > Len(coords) THEN <<>>
    ELSE <<haversine_meters(v[1], v[2], coords[j][1], coords[j][2])>>
         \o DistsFrom(v, coords, j + 1)

\* row of haversine_vec(verts, coords) for one vertex: its distance to every
\* original point
DistsToCoords(v, coords) == DistsFrom(v, coords, 1)

RECURSIVE SortAscending(_)
\* the entries of a row in ascending order
SortAscending(row) ==
    IF Len(row) = 0 THEN <<>>
    ELSE LET k == CHOOSE i \in 1..Len(row) : \A j \in 1..Len(row) : row[i] <= row[j]
         IN <<row[k]>> \o SortAscending(SubSeq(row, 1, k - 1) \o
                                         SubSeq(row, k + 1, Len(row)))

\* np.partition(dists, 2, axis=1)[:, :3] for one row: column 2 holds the
\* third smallest distance, columns 0 and 1 the two smaller ones in an order
\* numpy does not specify (swap says which)
NearestDists(row, swap) ==
    LET sorted == SortAscending(row)
    IN IF swap THEN <<sorted[2], sorted[1], sorted[3]>>
       ELSE <<sorted[1], sorted[2], sorted[3]>>

\* mask[i]: min_dists >= MIN_DIST_TO_TERMINAL, and third_min_dists <=
\* MAX_CIRCUMRADIUS
Mask(v, coords, swap) ==
    LET nearest_dists == NearestDists(DistsToCoords(v, coords), swap)
        min_dists == nearest_dists[1]
        third_min_dists == nearest_dists[3]
    IN min_dists >= MIN_DIST_TO_TERMINAL /\ third_min_dists <= MAX_CIRCUMRADIUS

\* rounding away the last decimal digit: to the nearest multiple of 10, a
\* tie to the even one
RoundHalfEven10(x) ==
    LET q == x \div 10
        r == x % 10
    IN IF r < 5 THEN q * 10
       ELSE IF r > 5 THEN (q + 1) * 10
       ELSE IF q % 2 = 0 THEN q * 10 ELSE (q + 1) * 10

\* np.round(x, decimals=6) of a coordinate in units of 1e-7 degree
Round6(x) == RoundHalfEven10(x)

LexLess(a, b) == a[1] < b[1] \/ (a[1] = b[1] /\ a[2] < b[2])

RECURSIVE SortRows(_)
\* the rows of a set of points in lexicographic order, as np.unique(axis=0)
\* returns them (the later argsort by latitude keeps that order)
SortRows(S) ==
    IF S = {} THEN <<>>
    ELSE LET m == CHOOSE x \in S : \A y \in S \ {x} : LexLess(x, y)
         IN <<m>> \o SortRows(S \ {m})

RECURSIVE GreedyKeep(_, _, _)
\* the greedy separation filter over cands[i..], kept being the points kept
GreedyKeep(cands, i, kept) ==
    IF i > Len(cands) THEN kept
    ELSE LET pt == cands[i]
             far == \A k \in 1..Len(kept) :
                        haversine_meters(pt[1], pt[2], kept[k][1], kept[k][2])
                            >= MIN_CANDIDATE_SEPARATION
         IN GreedyKeep(cands, i + 1,
                       IF Len(kept) = 0 \/ far THEN Append(kept, pt) ELSE kept)

\* generate_voronoi_candidates(coords), given vor.vertices = vs and, per
\* vertex, the order numpy left its two smallest distances in
generate_voronoi_candidates(coords, vs, swaps) ==
    IF Len(coords) < 3 THEN <<>>
    ELSE IF Len(vs) = 0 THEN <<>>
    ELSE LET masked == {vs[i] : i \in {j \in 1..Len(vs) : Mask(vs[j], coords, swaps[j])}}
         IN IF masked = {} THEN <<>>
            ELSE LET uniq == SortRows({<<Round6(c[1]), Round6(c[2])>> : c \in masked})
                 IN IF Len(uniq) <= 1 THEN uniq
                    ELSE GreedyKeep(uniq, 1, <<>>)

-----------------------------------------------------------------------------
(* Directed graphs (nx.DiGraph): a set of nodes and, per ordered pair, at  *)
(* most one edge [u, v, weight, length, voltage].                          *)

EmptyGraph == [nodes |-> {}, edges |-> {}]

Edge(u, v, w, d, volt) ==
    [u |-> u, v |-> v, weight |-> w, length |-> d, voltage |-> volt]

\* DG.add_edge for every edge of E: the end points become nodes, and an edge
\* already there between the same ordered pair is replaced
AddEdges(G, E) ==
    [nodes |-> G.nodes \cup {e.u : e \in E} \cup {e.v : e \in E},
     edges |-> {e \in G.edges : ~\E f \in E : f.u = e.u /\ f.v = e.v} \cup E]

OutDegree(G, n) == Cardinality({e \in G.edges : e.u = n})
InDegree(G, n) == Cardinality({e \in G.edges : e.v = n})
Successors(G, n) == {e.v : e \in {f \in G.edges : f.u = n}}
Predecessors(G, n) == {e.u : e \in {f \in G.edges : f.v = n}}

RECURSIVE ReachFrom(_, _)
\* the nodes reached from a node of S by a path of zero or more edges
ReachFrom(G, S) ==
    LET T == S \cup UNION {Successors(G, n) : n \in S}
    IN IF T = S THEN S ELSE ReachFrom(G, T)

\* nx.descendants(G, n)
Descendants(G, n) == ReachFrom(G, {n}) \ {n}

\* G.remove_node(n): the node and every edge at it
RemoveNode(G, n) ==
    [nodes |-> G.nodes \ {n},
     edges |-> {e \in G.edges : e.u # n /\ e.v # n}]

\* G.remove_edge(pred, n) for every pred of preds
RemoveEdgesInto(G, preds, n) ==
    [G EXCEPT !.edges = {e \in G.edges : ~(e.u \in preds /\ e.v = n)}]

-----------------------------------------------------------------------------
(* build_directed_graph_for_arborescence.                                  *)

\* the window without its lower end
InWindowFromZero(d, max) == d <= max

\* 0.1 < d <= max
InWindow(d, max) == MIN_EDGE_LENGTH < d /\ d <= max

\* poles -> terminals (service drops)
ServiceDrops(terms, poles, dm) ==
    {Edge(p, h, dm[p][h], dm[p][h], "low") :
        <<p, h>> \in {q \in Range(poles) \X Range(terms) :
                        InWindow(dm[q[1]][q[2]], MAX_POLE_TO_TERMINAL)}}

\* pole <-> pole spans, both directions
Spans(poles, dm) ==
    LET pairs == {q \in (1..Len(poles)) \X (1..Len(poles)) :
                    /\ q[1] < q[2]
                    /\ InWindow(dm[poles[q[1]]][poles[q[2]]], MAX_POLE_TO_POLE)}
    IN {Edge(poles[q[1]], poles[q[2]], dm[poles[q[1]]][poles[q[2]]],
             dm[poles[q[1]]][poles[q[2]]], "high") : q \in pairs}
       \cup
       {Edge(poles[q[2]], poles[q[1]], dm[poles[q[1]]][poles[q[2]]],
             dm[poles[q[1]]][poles[q[2]]], "high") : q \in pairs}

\* source -> poles (main trunk)
Trunk(src, poles, dm) ==
    {Edge(src, p, dm[src][p], dm[src][p], "high") :
        p \in {q \in Range(poles) : InWindow(dm[src][q], MAX_POLE_TO_POLE)}}

\* the builder with direct source -> terminal edges as well
BuildWithDirectDrops(src, terms, poles, dm) ==
    AddEdges(AddEdges(AddEdges(EmptyGraph, ServiceDrops(terms, poles, dm)),
                      Spans(poles, dm)),
             Trunk(src, poles \o terms, dm))

build_directed_graph_for_arborescence(src, terms, poles, dm) ==
    AddEdges(AddEdges(AddEdges(EmptyGraph, ServiceDrops(terms, poles, dm)),
                      Spans(poles, dm)),
             Trunk(src, poles, dm))

-----------------------------------------------------------------------------
(* nx.minimum_spanning_arborescence(DG, attr="weight").                    *)

RECURSIVE TotalWeight(_)
TotalWeight(E) ==
    IF E = {} THEN 0
    ELSE LET e == CHOOSE x \in E : TRUE
         IN e.weight + TotalWeight(E \ {e})

RECURSIVE InEdgeChoices(_, _)
\* every way to give each node of N one of its incoming edges in G
InEdgeChoices(G, N) ==
    IF N = {} THEN {{}}
    ELSE LET n == CHOOSE x \in N : TRUE
             rest == InEdgeChoices(G, N \ {n})
         IN {c \cup {e} : <<c, e>> \in rest \X {f \in G.edges : f.v = n}}

\* one incoming edge for every node that has any, connected or not
ForestsOfInEdges(G) ==
    InEdgeChoices(G, {n \in G.nodes : InDegree(G, n) > 0})

\* the edge sets of the spanning arborescences of G: a root, one incoming
\* edge for every other node, every node reached from the root
SpanningArborescences(G) ==
    UNION {{c \in InEdgeChoices(G, G.nodes \ {r}) :
              ReachFrom([nodes |-> G.nodes, edges |-> c], {r}) = G.nodes}
           : r \in G.nodes}

\* those of minimum total weight; which of them the library returns is its
\* own choice
MinimumSpanningArborescences(G) ==
    LET all == SpanningArborescences(G)
    IN {a \in all : \A b \in all : TotalWeight(a) <= TotalWeight(b)}

-----------------------------------------------------------------------------
(* prune_dead_end_pole_branches.                                           *)

\* PruneLeaf without the test "leaf in pole_indices"
PruneLeafAnyNode(st, leaf, poles, terms) ==
    IF ~\E d \in Descendants(st.g, leaf) \cup {leaf} : d \in Range(terms)
    THEN [g |-> RemoveNode(RemoveEdgesInto(st.g, Predecessors(st.g, leaf), leaf),
                           leaf),
          removed |-> TRUE]
    ELSE st

\* PruneLeaf without the assignment "removed = True"
PruneLeafKeepsFlag(st, leaf, poles, terms) ==
    IF leaf \in Range(poles)
       /\ ~\E d \in Descendants(st.g, leaf) \cup {leaf} : d \in Range(terms)
    THEN [g |-> RemoveNode(RemoveEdgesInto(st.g, Predecessors(st.g, leaf), leaf),
                           leaf),
          removed |-> st.removed]
    ELSE st

\* one leaf of the for loop: a leaf that is a pole and serves no terminal
\* loses its incoming edges and is removed
PruneLeaf(st, leaf, poles, terms) ==
    IF leaf \in Range(poles)
       /\ ~\E d \in Descendants(st.g, leaf) \cup {leaf} : d \in Range(terms)
    THEN [g |-> RemoveNode(RemoveEdgesInto(st.g, Predecessors(st.g, leaf), leaf),
                           leaf),
          removed |-> TRUE]
    ELSE st

RECURSIVE PruneLeaves(_, _, _, _)
\* the for loop over the leaves
PruneLeaves(st, leaves, poles, terms) ==
    IF leaves = {} THEN st
    ELSE LET leaf == CHOOSE n \in leaves : \A m \in leaves : n <= m
         IN PruneLeaves(PruneLeaf(st, leaf, poles, terms),
                        leaves \ {leaf}, poles, terms)

\* one pass of the while loop: [g, removed]
PrunePassOf(g, poles, terms) ==
    LET leaves == {n \in g.nodes : OutDegree(g, n) = 0}
    IN PruneLeaves([g |-> g, removed |-> FALSE], leaves, poles, terms)

-----------------------------------------------------------------------------
(* The summary at the end of compute_mst.  Money is in thousandths of a    *)
(* currency unit, so that a cost per metre times millimetres is money.     *)

\* round(x, 2) of a length in millimetres or of money in thousandths
Round2(x) == RoundHalfEven10(x)

PoleName(idx) == <<"P","o","l","e"," ">> \o IntToStr(idx)
UnusedName(i) == <<"U","n","u","s","e","d"," ">> \o IntToStr(i)
CandidateName(i) == <<"C","a","n","d","i","d","a","t","e"," ">> \o IntToStr(i)
NodeName(i) == <<"N","o","d","e"," ">> \o IntToStr(i)

\* costs.get(key, default)
CostOf(cs, key, default) == IF cs[key].has THEN cs[key].v ELSE default

EdgeLess(e, f) == e.u < f.u \/ (e.u = f.u /\ e.v < f.v)

RECURSIVE EdgeSeq(_)
\* mst.edges(data=True) as a list
EdgeSeq(E) ==
    IF E = {} THEN <<>>
    ELSE LET m == CHOOSE e \in E : \A f \in E \ {e} : EdgeLess(e, f)
         IN <<m>> \o EdgeSeq(E \ {m})

RECURSIVE SumLengths(_)
SumLengths(es) ==
    IF Len(es) = 0 THEN 0 ELSE Head(es).length + SumLengths(Tail(es))

\* used_nodes without the end nodes of the edges
UsedNodesStartsOnly(g) == {e.u : e \in g.edges}

\* used_nodes
UsedNodes(g) == {e.u : e \in g.edges} \cup {e.v : e \in g.edges}

\* used_pole_indices
UsedPoles(g, poles) == SelectSeq(poles, LAMBDA i : i \in UsedNodes(g))

\* node_names.get(i): [has, name]
NodeNames(i, names, used_poles) ==
    IF \E k \in 1..Len(used_poles) : used_poles[k] = i
    THEN [has |-> TRUE,
          name |-> PoleName(CHOOSE k \in 1..Len(used_poles) : used_poles[k] = i)]
    ELSE IF i < Len(names) THEN [has |-> TRUE, name |-> names[i + 1]]
    ELSE [has |-> FALSE, name |-> <<>>]

NameOr(i, names, used_poles, default) ==
    IF NodeNames(i, names, used_poles).has
    THEN NodeNames(i, names, used_poles).name ELSE default

NoResult ==
    [returned |-> FALSE, edges |-> <<>>, nodes |-> <<>>,
     totalLowVoltageMeters |-> 0, totalHighVoltageMeters |-> 0,
     numPolesUsed |-> 0, poleCostEstimate |-> 0, lowWireCostEstimate |-> 0,
     highWireCostEstimate |-> 0, totalWireCostEstimate |-> 0,
     totalCostEstimate |-> 0,
     debug |-> [sourceIndex |-> -1, sourceName |-> <<>>, originalPoints |-> 0,
                candidatesGenerated |-> 0, candidatesUsed |-> 0]]

\* the dictionary compute_mst returns for the pruned tree g
Summary(g, ext, names, src, poles, pole_start_idx, cands, cs, dbg) ==
    LET used_nodes == UsedNodes(g)
        used_poles == UsedPoles(g, poles)
        es == EdgeSeq(g.edges)
        EndPoint(i) == [lat |-> ext[i + 1][1], lng |-> ext[i + 1][2],
                        name |-> NameOr(i, names, used_poles, NodeName(i))]
        total_low_m == SumLengths(SelectSeq(es, LAMBDA e : e.voltage = "low"))
        total_high_m == SumLengths(SelectSeq(es, LAMBDA e : e.voltage # "low"))
        num_poles == Len(used_poles)
        pole_cost_est == num_poles * CostOf(cs, "poleCost", DEFAULT_POLE_COST)
        low_wire_est ==
            total_low_m * CostOf(cs, "lowVoltageCostPerMeter", DEFAULT_LOW_COST_M)
        high_wire_est ==
            total_high_m * CostOf(cs, "highVoltageCostPerMeter", DEFAULT_HIGH_COST_M)
        total_wire_est == low_wire_est + high_wire_est
        total_cost_est == pole_cost_est + total_wire_est
        shown == IF dbg THEN SeqOfSet(0..(Len(ext) - 1)) ELSE SeqOfSet(used_nodes)
    IN [returned |-> TRUE,
        edges |-> [k \in 1..Len(es) |->
                     [start |-> EndPoint(es[k].u), end |-> EndPoint(es[k].v),
                      lengthMeters |-> Round2(es[k].length),
                      voltage |-> es[k].voltage]],
        nodes |-> [k \in 1..Len(shown) |->
                     LET i == shown[k]
                     IN [index |-> i, lat |-> ext[i + 1][1], lng |-> ext[i + 1][2],
                         name |-> IF dbg THEN CandidateName(i)
                                  ELSE NameOr(i, names, used_poles, UnusedName(i)),
                         type |-> IF dbg THEN "pole"
                                  ELSE IF i = src THEN "source"
                                  ELSE IF i < pole_start_idx THEN "terminal"
                                  ELSE "pole"]],
        totalLowVoltageMeters |-> Round2(total_low_m),
        totalHighVoltageMeters |-> Round2(total_high_m),
        numPolesUsed |-> num_poles,
        poleCostEstimate |-> Round2(pole_cost_est),
        lowWireCostEstimate |-> Round2(low_wire_est),
        highWireCostEstimate |-> Round2(high_wire_est),
        totalWireCostEstimate |-> Round2(total_wire_est),
        totalCostEstimate |-> Round2(total_cost_est),
        debug |-> [sourceIndex |-> src,
                   sourceName |-> NameOr(src, names, used_poles, PowerSourceName),
                   originalPoints |-> Len(names),
                   candidatesGenerated |-> Len(cands),
                   candidatesUsed |-> num_poles]]

-----------------------------------------------------------------------------
(* Bounds and inputs.                                                      *)

\* most points in a request of a village (Spec)
MaxPoints == 4
\* most points in a request of SpecParse
MaxParsePoints == 3
\* most vertices the Voronoi library answers
MaxVerts == 3
\* most nodes of an arborescence handed directly to the pruner
MaxNodes == 5
\* most calls of the pruner in a row
MaxCalls == 2
\* most nodes of an arborescence handed to the pruner under fairness
MaxFairNodes == 4

Num(x) == [k |-> "num", v |-> x]
Str(x) == [k |-> "str", v |-> x]
Raw(kind) == [k |-> kind, v |-> 0]
Named(s) == [none |-> FALSE, s |-> s]
NoName == [none |-> TRUE, s |-> <<>>]
Pt(lat, lng, name) == [lat |-> Num(lat), lng |-> Num(lng), name |-> name]

HouseName == <<"H","o","u","s","e">>
SubstationName == <<"S","u","b","s","t","a","t","i","o","n">>

\* The points of a small village near (0, 0), in units of 1e-7 degree, in
\* the order a request lists them: a house off the equator, a substation
\* 350 m to the north, three points 111.2 m apart on the equator, and an
\* unnamed building at the substation's place.
GeoPoints == <<
    Pt(6000, 5000, Named(HouseName)),
    Pt(32000, 5000, Named(SubstationName)),
    Pt(0, 0, Named(PowerSourceName)),
    Pt(0, 10000, Named(HouseName)),
    Pt(0, 20000, NoName),
    Pt(32000, 5000, NoName) >>

\* Vertices the Voronoi library may answer for the village: the circumcentre
\* of (0,0), (0,10000), (6000,5000); a point that rounds to the same 6
\* decimals; one 6.4 m from it; one 0.08 m from (0,0); one 8.006 m from
\* (0,0) that rounds to a point 7.94 m from it; two more along the equator,
\* 111.2 m apart; one 66.7 m from the substation.
GeoVertexPool == {
    <<917, 5000>>, <<921, 5004>>, <<1500, 5000>>, <<5, 5>>, <<514, 505>>,
    <<917, 15000>>, <<917, 25000>>, <<26000, 5000>> }

\* The points of the requests of SpecParse: names that match a source
\* keyword or not, upper case, padded, missing; coordinates that are
\* strings, missing, None, nan, not numeric, out of range.
ParsePoints == {
    [lat |-> Str(0), lng |-> Num(0), name |-> Named(HouseName)],
    Pt(0, 10000, NoName),
    Pt(6000, 5000, Named(<<" ","S","U","B","S","T","A","T","I","O","N"," ","2"," ">>)),
    Pt(0, 10000, Named(<<"R","e","s","o","u","r","c","e">>)),
    Pt(0, 0, Named(<<"M","a","i","n"," ","U","t","i","l","i","t","y">>)),
    Pt(0, 0, Named(<<"G","r","i","d","t","i","e">>)),
    [lat |-> Raw("missing"), lng |-> Num(0), name |-> Named(HouseName)],
    [lat |-> Num(0), lng |-> Raw("none"), name |-> Named(SubstationName)],
    [lat |-> Raw("bad"), lng |-> Num(0), name |-> NoName],
    [lat |-> Raw("nan"), lng |-> Num(0), name |-> Named(HouseName)],
    Pt(900000001, 0, Named(PowerSourceName)),
    Pt(0, -1800000001, Named(HouseName)) }

ParseVertexPool == {<<917, 5000>>}

\* request.costs: every key given (a pole at 100, wire at 1 per metre), or
\* none, which leaves the defaults
CostInputs == {
    [poleCost |-> [has |-> TRUE, v |-> 100000],
     lowVoltageCostPerMeter |-> [has |-> TRUE, v |-> 1],
     highVoltageCostPerMeter |-> [has |-> TRUE, v |-> 1]],
    [poleCost |-> [has |-> FALSE, v |-> 0],
     lowVoltageCostPerMeter |-> [has |-> FALSE, v |-> 0],
     highVoltageCostPerMeter |-> [has |-> FALSE, v |-> 0]] }

\* the requests that list at most max of the points of seq, in seq's order
SubRequests(seq, max) ==
    {[k \in 1..Cardinality(I) |-> seq[SeqOfSet(I)[k]]] :
        I \in {J \in SUBSET (1..Len(seq)) : Cardinality(J) <= max}}

\* the requests of at most max points of P, in any order, repeats allowed
AllRequests(P, max) == UNION {[1..n -> P] : n \in 0..max}

\* the lists of at most MaxVerts vertices of a pool
VertexLists(V) ==
    {SortRows(S) : S \in {T \in SUBSET V : Cardinality(T) <= MaxVerts}}

\* whether all points lie on one line (or coincide): Qhull then has no
\* initial simplex and Voronoi(coords) raises QhullError
Collinear(coords) ==
    \A i, j, k \in 1..Len(coords) :
        (coords[j][1] - coords[i][1]) * (coords[k][2] - coords[i][2])
          = (coords[k][1] - coords[i][1]) * (coords[j][2] - coords[i][2])

-----------------------------------------------------------------------------
(* The state machine.                                                      *)

InitWith(requests, vertices, flags) ==
    /\ pc = "start"
    /\ error = ""
    /\ points \in requests
    /\ pool = vertices
    /\ debug \in flags
    /\ costs \in CostInputs
    /\ parsed = ParseFailed("")
    /\ verts = <<>>
    /\ candidates = <<>>
    /\ extended_coords = <<>>
    /\ pole_indices = <<>>
    /\ terminal_indices = <<>>
    /\ source_idx = -1
    /\ dist_matrix = <<>>
    /\ DG = EmptyGraph
    /\ arbo_in = EmptyGraph
    /\ arbo = EmptyGraph
    /\ removed = FALSE
    /\ passes = 0
    /\ calls = 0
    /\ prev_out = EmptyGraph
    /\ mst = EmptyGraph
    /\ result = NoResult

Init == InitWith(SubRequests(GeoPoints, MaxPoints), GeoVertexPool, BOOLEAN)

\* compute_mst, line 457: parse_input returns or raises
ParseInput ==
    /\ pc = "start"
    /\ parsed' = parse_input(points)
    /\ IF parsed'.ok
       THEN /\ pc' = "generate"
            /\ error' = error
            /\ terminal_indices' = parsed'.terminal_indices
            /\ source_idx' = parsed'.source_idx
       ELSE /\ pc' = "error"
            /\ error' = "ValueError"
            /\ UNCHANGED <<terminal_indices, source_idx>>
    /\ UNCHANGED <<points, debug, costs, pool, verts, candidates, extended_coords,
                   pole_indices, dist_matrix, DG, arbo_in, arbo, removed,
                   passes, calls, prev_out, mst, result>>

\* the vertices whose mask depends on the order numpy left the two smallest
\* distances in; for the others either order gives the same candidates
OrderMatters(coords, vs) ==
    {j \in 1..Len(vs) : Mask(vs[j], coords, TRUE) # Mask(vs[j], coords, FALSE)}

\* compute_mst, lines 462-474: the candidates and the extended node list
GenerateCandidates ==
    /\ pc = "generate"
    /\ IF Len(parsed.coords) < 3
       THEN /\ verts' = <<>>
            /\ candidates' = generate_voronoi_candidates(parsed.coords, <<>>, <<>>)
       ELSE /\ ~Collinear(parsed.coords)
            /\ \E vs \in VertexLists(pool) :
                 \E swapped \in SUBSET OrderMatters(parsed.coords, vs) :
                    /\ verts' = vs
                    /\ candidates' = generate_voronoi_candidates(
                           parsed.coords, vs, [j \in 1..Len(vs) |-> j \in swapped])
    /\ extended_coords' = parsed.coords \o candidates'
    /\ pole_indices' = [k \in 1..Len(candidates') |-> Len(parsed.coords) + k - 1]
    /\ pc' = "build"
    /\ UNCHANGED <<error, points, debug, costs, pool, parsed, terminal_indices,
                   source_idx, dist_matrix, DG, arbo_in, arbo, removed, passes,
                   calls, prev_out, mst, result>>

\* line 73: the Voronoi library raises on degenerate input
VoronoiRaises ==
    /\ pc = "generate"
    /\ Len(parsed.coords) >= 3
    /\ Collinear(parsed.coords)
    /\ pc' = "error"
    /\ error' = "QhullError"
    /\ UNCHANGED <<points, debug, costs, pool, parsed, verts, candidates,
                   extended_coords, pole_indices, terminal_indices, source_idx,
                   dist_matrix, DG, arbo_in, arbo, removed, passes, calls,
                   prev_out, mst, result>>

RECURSIVE DistRows(_, _)
DistRows(ext, i) ==
    IF i > Len(ext) THEN <<>>
    ELSE <<DistsFrom(ext[i], ext, 1)>> \o DistRows(ext, i + 1)

\* cdist(extended_coords, extended_coords, haversine_meters), as a function
\* of two node ids
DistMatrix(ext) ==
    LET rows == DistRows(ext, 1)
    IN [i \in 0..(Len(ext) - 1) |-> [j \in 0..(Len(ext) - 1) |-> rows[i + 1][j + 1]]]

\* compute_mst, lines 477-489: the distance matrix and the candidate graph
BuildGraph ==
    /\ pc = "build"
    /\ dist_matrix' = DistMatrix(extended_coords)
    /\ DG' = build_directed_graph_for_arborescence(
                 source_idx, terminal_indices, pole_indices, dist_matrix')
    /\ pc' = "solve"
    /\ UNCHANGED <<error, points, debug, costs, pool, parsed, verts, candidates,
                   extended_coords, pole_indices, terminal_indices, source_idx,
                   arbo_in, arbo, removed, passes, calls, prev_out, mst, result>>

\* compute_mst, lines 491-494: the library returns a minimum spanning
\* arborescence of DG, or raises when DG has no node or no spanning
\* arborescence; the result is handed to the pruner, which copies it
SolveArborescence ==
    /\ pc = "solve"
    /\ IF DG.nodes = {}
       THEN /\ pc' = "error"
            /\ error' = "NetworkXPointlessConcept"
            /\ UNCHANGED <<arbo_in, arbo, removed, passes, calls>>
       ELSE IF MinimumSpanningArborescences(DG) = {}
       THEN /\ pc' = "error"
            /\ error' = "NetworkXException"
            /\ UNCHANGED <<arbo_in, arbo, removed, passes, calls>>
       ELSE /\ \E a \in MinimumSpanningArborescences(DG) :
                  /\ arbo_in' = [nodes |-> DG.nodes, edges |-> a]
                  /\ arbo' = arbo_in'
            /\ removed' = TRUE
            /\ passes' = 0
            /\ calls' = 1
            /\ pc' = "prune"
            /\ error' = error
    /\ UNCHANGED <<points, debug, costs, pool, parsed, verts, candidates,
                   extended_coords, pole_indices, terminal_indices, source_idx,
                   dist_matrix, DG, prev_out, mst, result>>

\* PrunePass with "if removed" for "while removed": a single pass
PrunePassSingle ==
    /\ pc = "prune"
    /\ removed
    /\ arbo' = PrunePassOf(arbo, pole_indices, terminal_indices).g
    /\ removed' = FALSE
    /\ passes' = passes + 1
    /\ UNCHANGED <<pc, error, points, debug, costs, pool, parsed, verts, candidates,
                   extended_coords, pole_indices, terminal_indices, source_idx,
                   dist_matrix, DG, arbo_in, calls, prev_out, mst, result>>

\* PrunePass without "arbo = arbo.copy()": the pass works on the graph that
\* was passed in
PrunePassInPlace ==
    /\ pc = "prune"
    /\ removed
    /\ LET st == PrunePassOf(arbo, pole_indices, terminal_indices)
       IN /\ arbo' = st.g
          /\ arbo_in' = st.g
          /\ removed' = st.removed
    /\ passes' = passes + 1
    /\ UNCHANGED <<pc, error, points, debug, costs, pool, parsed, verts, candidates,
                   extended_coords, pole_indices, terminal_indices, source_idx,
                   dist_matrix, DG, calls, prev_out, mst, result>>

\* prune_dead_end_pole_branches, lines 216-229: one pass of the while loop
PrunePass ==
    /\ pc = "prune"
    /\ removed
    /\ LET st == PrunePassOf(arbo, pole_indices, terminal_indices)
       IN /\ arbo' = st.g
          /\ removed' = st.removed
    /\ passes' = passes + 1
    /\ UNCHANGED <<pc, error, points, debug, costs, pool, parsed, verts, candidates,
                   extended_coords, pole_indices, terminal_indices, source_idx,
                   dist_matrix, DG, arbo_in, calls, prev_out, mst, result>>

\* PruneReturn without the loop guard: the copy is returned after any pass
PruneReturnAnyTime ==
    /\ pc = "prune"
    /\ passes >= 1
    /\ mst' = arbo
    /\ pc' = "pruned"
    /\ UNCHANGED <<error, points, debug, costs, pool, parsed, verts, candidates,
                   extended_coords, pole_indices, terminal_indices, source_idx,
                   dist_matrix, DG, arbo_in, arbo, removed, passes, calls,
                   prev_out, result>>

\* prune_dead_end_pole_branches, line 230: the loop is over, the copy is
\* returned
PruneReturn ==
    /\ pc = "prune"
    /\ ~removed
    /\ mst' = arbo
    /\ pc' = "pruned"
    /\ UNCHANGED <<error, points, debug, costs, pool, parsed, verts, candidates,
                   extended_coords, pole_indices, terminal_indices, source_idx,
                   dist_matrix, DG, arbo_in, arbo, removed, passes, calls,
                   prev_out, result>>

\* compute_mst, lines 497-590: the summary is returned
Summarize ==
    /\ pc = "pruned"
    /\ result' = Summary(mst, extended_coords, parsed.names, source_idx,
                         pole_indices, Len(parsed.coords), candidates, costs,
                         debug)
    /\ pc' = "done"
    /\ UNCHANGED <<error, points, debug, costs, pool, parsed, verts, candidates,
                   extended_coords, pole_indices, terminal_indices, source_idx,
                   dist_matrix, DG, arbo_in, arbo, removed, passes, calls,
                   prev_out, mst>>

Next ==
    \/ ParseInput
    \/ GenerateCandidates
    \/ VoronoiRaises
    \/ BuildGraph
    \/ SolveArborescence
    \/ PrunePass
    \/ PruneReturn
    \/ Summarize

\* compute_mst on a request
Spec == Init /\ [][Next]_vars

-----------------------------------------------------------------------------
(* compute_mst on requests that exercise parse_input.                      *)

InitParse ==
    InitWith(AllRequests(ParsePoints, MaxParsePoints), ParseVertexPool, {FALSE})

SpecParse == InitParse /\ [][Next]_vars

-----------------------------------------------------------------------------
(* prune_dead_end_pole_branches called on its own, on any arborescence of  *)
(* at most MaxNodes nodes: node 0 is the root, every other node i hangs    *)
(* below a node parent[i] < i; the root is the source, a pole or a         *)
(* destination, every other node a pole or a destination.                  *)

TreeOf(parent, role) ==
    [nodes |-> DOMAIN role,
     edges |-> {Edge(parent[i], i, 1000, 1000,
                     IF role[i] = "terminal" THEN "low" ELSE "high") :
                  i \in DOMAIN parent}]

InitPruneOf(max) ==
    \E n \in 1..max :
      \E parent \in [1..(n - 1) -> 0..(n - 1)] :
        \E role \in [0..(n - 1) -> {"source", "pole", "terminal"}] :
            /\ \A i \in 1..(n - 1) : parent[i] < i /\ role[i] # "source"
            /\ pc = "prune"
            /\ error = ""
            /\ points = <<>>
            /\ debug = FALSE
            /\ costs \in {c \in CostInputs : c.poleCost.has}
            /\ pool = {}
            /\ parsed = ParseFailed("")
            /\ verts = <<>>
            /\ candidates = <<>>
            /\ extended_coords = <<>>
            /\ pole_indices = SeqOfSet({i \in 0..(n - 1) : role[i] = "pole"})
            /\ terminal_indices = SeqOfSet({i \in 0..(n - 1) : role[i] = "terminal"})
            /\ source_idx = IF role[0] = "source" THEN 0 ELSE -1
            /\ dist_matrix = <<>>
            /\ DG = EmptyGraph
            /\ arbo_in = TreeOf(parent, role)
            /\ arbo = arbo_in
            /\ removed = TRUE
            /\ passes = 0
            /\ calls = 1
            /\ prev_out = EmptyGraph
            /\ mst = EmptyGraph
            /\ result = NoResult

InitPrune == InitPruneOf(MaxNodes)

\* the pruner is called again, on what it has just returned
PruneAgain ==
    /\ pc = "pruned"
    /\ calls < MaxCalls
    /\ prev_out' = mst
    /\ arbo_in' = mst
    /\ arbo' = mst
    /\ removed' = TRUE
    /\ passes' = 0
    /\ calls' = calls + 1
    /\ pc' = "prune"
    /\ UNCHANGED <<error, points, debug, costs, pool, parsed, verts, candidates,
                   extended_coords, pole_indices, terminal_indices, source_idx,
                   dist_matrix, DG, mst, result>>

NextPrune ==
    \/ PrunePass
    \/ PruneReturn
    \/ PruneAgain

SpecPrune == InitPrune /\ [][NextPrune]_vars

\* The while loop is sequential code: a pass that can run does run, and the
\* return statement is executed once the loop is over.
InitPruneFair == InitPruneOf(MaxFairNodes)

SpecPruneFair ==
    InitPruneFair /\ [][NextPrune]_vars /\ WF_vars(PrunePass) /\ WF_vars(PruneReturn)

-----------------------------------------------------------------------------
(* Properties of prune_dead_end_pole_branches (SpecPrune).                 *)

Poles == Range(pole_indices)
Terminals == Range(terminal_indices)

\* the nodes the pruner was handed at its first call
HandedNodes == Poles \cup Terminals \cup (IF source_idx >= 0 THEN {source_idx} ELSE {})

\* C1: every pole of the graph the pruner returns has a destination among
\* its descendants.
C1_PolesServeDestination ==
    pc = "pruned" =>
        \A p \in mst.nodes \cap Poles :
            \E d \in Descendants(mst, p) : d \in Terminals

\* a call that removed a pole and kept another one
C1_Witness ==
    /\ pc = "pruned"
    /\ calls = 1
    /\ (arbo_in.nodes \ mst.nodes) # {}
    /\ mst.nodes \cap Poles # {}

\* C2: whatever the number of passes so far, the pruner has removed poles
\* only: every destination and the source handed in are still there, and
\* so is every edge between two nodes that are still there.
C2_OnlyPolesRemoved ==
    LET Kept(g) ==
            /\ \A n \in arbo_in.nodes : n \notin Poles => n \in g.nodes
            /\ g.nodes \subseteq arbo_in.nodes
            /\ g.edges \subseteq arbo_in.edges
            /\ \A e \in arbo_in.edges :
                   (e.u \in g.nodes /\ e.v \in g.nodes) => e \in g.edges
    IN /\ pc \in {"prune", "pruned"} => Kept(arbo)
       /\ pc = "pruned" => Kept(mst)

\* a destination that had children, lost them all, and is kept as a leaf,
\* beside a source that is kept
C2_Witness ==
    /\ pc = "pruned"
    /\ calls = 1
    /\ source_idx \in mst.nodes
    /\ \E t \in Terminals :
          /\ OutDegree(arbo_in, t) > 0
          /\ t \in mst.nodes
          /\ OutDegree(mst, t) = 0

\* C6: the pruner called on what it returned returns the same nodes and
\* edges.
C6_PruneIdempotent ==
    (pc = "pruned" /\ calls >= 2) =>
        /\ mst.nodes = prev_out.nodes
        /\ mst.edges = prev_out.edges

\* a second call has returned, after a first call that took at least two
\* removing passes' worth of poles away and kept a pole
C6_Witness ==
    /\ pc = "pruned"
    /\ calls = 2
    /\ Cardinality(HandedNodes \ prev_out.nodes) >= 2
    /\ prev_out.nodes \cap Poles # {}

-----------------------------------------------------------------------------
(* Properties of compute_mst (Spec).                                       *)

\* compute_mst got as far as the arborescence solver and ended there or
\* later, with a result or with the solver's exception
Solved ==
    \/ pc = "done"
    \/ pc = "error" /\ error \in {"NetworkXException", "NetworkXPointlessConcept"}

\* the destinations with a path from the source in the candidate graph
ReachableTerminals == Terminals \cap ReachFrom(DG, {source_idx})

\* the entries of the result's node list for node i
NodeEntries(i) == {k \in 1..Len(result.nodes) : result.nodes[k].index = i}

\* C3: the network compute_mst returns is a tree rooted at the source: the
\* source has no incoming edge, every other used node has exactly one and is
\* reached from the source.
C3_TreeRootedAtSource ==
    (pc = "done" /\ UsedNodes(mst) # {}) =>
        /\ source_idx \in UsedNodes(mst)
        /\ InDegree(mst, source_idx) = 0
        /\ \A n \in UsedNodes(mst) \ {source_idx} :
              /\ InDegree(mst, n) = 1
              /\ n \in ReachFrom(mst, {source_idx})

EdgeKindOk(e) ==
    \/ e.u \in Poles /\ e.v \in Terminals /\ e.voltage = "low"
    \/ e.u \in Poles /\ e.v \in Poles /\ e.voltage = "high"
    \/ e.u = source_idx /\ e.v \in Poles /\ e.voltage = "high"

\* the same on an edge of the result, read off the node list's types
ResultEdgeKindOk(r) ==
    \E a, b \in 1..Len(result.nodes) :
        LET x == result.nodes[a]
            y == result.nodes[b]
        IN /\ x.lat = r.start.lat /\ x.lng = r.start.lng /\ x.name = r.start.name
           /\ y.lat = r.end.lat /\ y.lng = r.end.lng /\ y.name = r.end.name
           /\ <<x.type, y.type, r.voltage>> \in
                 {<<"pole", "terminal", "low">>, <<"pole", "pole", "high">>,
                  <<"source", "pole", "high">>}

TwoPointScenario ==
    points = <<Pt(0, 0, Named(PowerSourceName)), Pt(0, 10000, Named(HouseName))>>

\* C7: with no pole, compute_mst returns a result that holds a source ->
\* destination edge for every destination in a window of the source; for
\* the 2-point scenario that is 1 edge of about 111.2 m, and no pole used.
C7_DirectEdgesWithoutPoles ==
    (Solved /\ Len(candidates) = 0) =>
        /\ pc = "done"
        /\ \A t \in Terminals :
              InWindow(dist_matrix[source_idx][t], MAX_POLE_TO_POLE) =>
                  \E e \in mst.edges : e.u = source_idx /\ e.v = t
        /\ TwoPointScenario =>
              /\ Len(result.edges) = 1
              /\ result.edges[1].lengthMeters \in 111100..111300
              /\ result.numPolesUsed = 0

\* whether the graph has a spanning arborescence: a node from which every
\* node is reached
HasSpanningArborescence(G) == \E r \in G.nodes : ReachFrom(G, {r}) = G.nodes

-----------------------------------------------------------------------------
(* Properties of parse_input (SpecParse).                                  *)

\* whether the name of a point contains a source keyword, whatever the case
Matches(p) ==
    /\ ~p.name.none
    /\ \E kw \in SOURCE_KEYWORDS : Contains(Lower(p.name.s), kw)

\* the 0-based indices of the request's points whose name matches
Matching == {i \in 0..(Len(points) - 1) : Matches(points[i + 1])}

\* the least element of a non-empty set of numbers
Least(S) == CHOOSE m \in S : \A x \in S : m <= x

\* the name a destination keeps: the one given, without the whitespace
\* around it, or the placeholder of its position
OwnName(i) ==
    IF points[i + 1].name.none THEN LocationName(i) ELSE Strip(points[i + 1].name.s)

\* C9: for a valid point list, parse_input takes as the source the point of
\* the lowest index whose name contains a source keyword, or the point at
\* index 0 when no name does; that point is named "Power Source", every
\* other point keeps its own name, and terminal_indices lists every index
\* but the source's, in order.
C9_FirstMatchIsSource ==
    (pc # "start" /\ parsed.ok) =>
        LET n == Len(points)
            src == IF Matching = {} THEN 0 ELSE Least(Matching)
        IN /\ parsed.source_idx = src
           /\ Len(parsed.names) = n
           /\ parsed.names[src + 1] = PowerSourceName
           /\ \A i \in 0..(n - 1) : i # src => parsed.names[i + 1] = OwnName(i)
           /\ parsed.terminal_indices = SeqOfSet((0..(n - 1)) \ {src})

\* a parsed list with two matching names, the first of them not at index 0
C9_Witness ==
    /\ pc # "start"
    /\ parsed.ok
    /\ Cardinality(Matching) >= 2
    /\ 0 \notin Matching

\* a raw lat/lng value float() turns into a number of the given range
ValidNumber(raw, limit) ==
    raw.k \in {"num", "str"} /\ -limit <= raw.v /\ raw.v <= limit

\* a request compute_mst must refuse
InvalidRequest ==
    \/ Len(points) < 2
    \/ \E k \in 1..Len(points) :
          \/ ~ValidNumber(points[k].lat, LAT_LIMIT)
          \/ ~ValidNumber(points[k].lng, LNG_LIMIT)

\* C10: on a request with fewer than 2 points, or with a point whose lat or
\* lng is missing, not a number or out of range, compute_mst ends with a
\* ValueError and has by then generated no candidate, computed no distance,
\* built no graph and returned no result.
C10_InvalidFailsFirst ==
    InvalidRequest =>
        /\ pc \in {"start", "error"}
        /\ pc = "error" => error = "ValueError"
        /\ verts = <<>> /\ candidates = <<>> /\ extended_coords = <<>>
        /\ dist_matrix = <<>>
        /\ DG = EmptyGraph
        /\ ~result.returned

\* a refused request whose only invalid point is the third
C10_Witness ==
    /\ pc = "error"
    /\ Len(points) = 3
    /\ \A k \in 1..2 : /\ ValidNumber(points[k].lat, LAT_LIMIT)
                       /\ ValidNumber(points[k].lng, LNG_LIMIT)
    /\ InvalidRequest

-----------------------------------------------------------------------------
(* Properties of the totals of the result (Spec).                          *)

\* C11: in every result, the returned totalCostEstimate is exactly the sum
\* of the returned poleCostEstimate, lowWireCostEstimate and
\* highWireCostEstimate.
C11_TotalIsSumOfParts ==
    pc = "done" =>
        result.totalCostEstimate =
            result.poleCostEstimate + result.lowWireCostEstimate
              + result.highWireCostEstimate

RECURSIVE SumLengthMeters(_, _)
\* the sum of lengthMeters over the first k edges of the result's edge list
SumLengthMeters(es, k) ==
    IF k = 0 THEN 0 ELSE es[k].lengthMeters + SumLengthMeters(es, k - 1)

\* C12: in every result, totalLowVoltageMeters + totalHighVoltageMeters is
\* the sum of lengthMeters over the edges of the result's edge list.
C12_TotalsAreSumOfEdges ==
    pc = "done" =>
        result.totalLowVoltageMeters + result.totalHighVoltageMeters
          = SumLengthMeters(result.edges, Len(result.edges))

-----------------------------------------------------------------------------
(* Properties of build_directed_graph_for_arborescence (Spec).             *)

\* the candidate graph has been built
Built ==
    \/ pc \in {"solve", "prune", "pruned", "done"}
    \/ pc = "error" /\ error \in {"NetworkXException", "NetworkXPointlessConcept"}

\* the edges of the candidate graph from u to v
EdgesOf(u, v) == {e \in DG.edges : e.u = u /\ e.v = v}

\* there is exactly one edge from u to v, of weight and length d
OneEdge(u, v, d) ==
    /\ Cardinality(EdgesOf(u, v)) = 1
    /\ \A e \in EdgesOf(u, v) : e.weight = d /\ e.length = d

-----------------------------------------------------------------------------
(* Termination of the pruning loop (SpecPruneFair).                        *)

\* the poles of g with no outgoing edge
LeafPoles(g) == {n \in g.nodes \cap Poles : OutDegree(g, n) = 0}

\* a pass of the while loop either removes at least one node and asks for
\* another pass, or changes nothing and ends the loop
PassShrinksOrEnds ==
    (pc = "prune" /\ pc' = "prune" /\ passes' = passes + 1) =>
        \/ removed' /\ arbo'.nodes \subseteq arbo.nodes /\ arbo'.nodes # arbo.nodes
        \/ ~removed' /\ arbo' = arbo

\* the loop is left only with no leaf pole in the graph
EndsInFixedPoint ==
    (pc = "prune" /\ pc' = "pruned") => LeafPoles(mst') = {}

\* C14: the pruning loop terminates on every arborescence: every call
\* returns; each pass removes at least one node or removes nothing and ends
\* the loop; and the loop ends only when no leaf pole is left.
C14_PruneTerminates ==
    /\ [][PassShrinksOrEnds /\ EndsInFixedPoint]_vars
    /\ (pc = "prune") ~> (pc = "pruned")

\* a call that returned after three passes: a pole was removed, then its
\* parent, which had become a leaf, then nothing
C14_Witness ==
    /\ pc = "pruned"
    /\ calls = 1
    /\ passes = 3
    /\ Cardinality(arbo_in.nodes \ mst.nodes) >= 2

-----------------------------------------------------------------------------
(* The frame of prune_dead_end_pole_branches (SpecPrune).                  *)

\* C15: during a call of the pruner, from its first pass to its return,
\* the arborescence passed in keeps its nodes and edges, whatever is
\* removed from the copy and returned.
C15_InputUnchanged ==
    [][(pc = "prune" /\ pc' \in {"prune", "pruned"}) =>
          /\ arbo_in'.nodes = arbo_in.nodes
          /\ arbo_in'.edges = arbo_in.edges]_vars

\* a call that returned a graph with fewer edges than the one passed in,
\* which still has them
C15_Witness ==
    /\ pc = "pruned"
    /\ calls = 1
    /\ mst.edges # {}
    /\ arbo_in.edges \ mst.edges # {}
    /\ arbo_in.nodes \ mst.nodes # {}

-----------------------------------------------------------------------------
(* Properties of generate_voronoi_candidates (Spec).                       *)

\* generate_voronoi_candidates has returned
Generated ==
    /\ pc \notin {"start", "generate"}
    /\ ~(pc = "error" /\ error \in {"ValueError", "QhullError"})

\* C16: every candidate generate_voronoi_candidates returns is at least 8 m
\* from every point it was given, its nearest one included.
C16_CandidatesFarFromPoints ==
    Generated =>
        \A k \in 1..Len(candidates), j \in 1..Len(parsed.coords) :
            haversine_meters(candidates[k][1], candidates[k][2],
                             parsed.coords[j][1], parsed.coords[j][2]) >= 8000

=============================================================================
